---------------------------- MODULE Spec2Model ----------------------------
(***************************************************************************)
(* Model of deep-tools (src/src/utils/parsePath.ts): the path parser       *)
(* parsePath and the two locators deepFindByKey (breadth-first, FIFO       *)
(* queue) and deepFindByValue (depth-first, LIFO stack), each run as a     *)
(* state machine over a heap of JavaScript containers.                     *)
(*                                                                         *)
(* Strings are sequences of one-character strings, so that rendering and   *)
(* parsing a path are computed character by character.                     *)
(***************************************************************************)
EXTENDS Integers, Sequences, FiniteSets, TLC

VARIABLES
  call,         \* the exported function being executed
  heap,         \* the containers of the data graph, by identity 1..Len(heap)
  obj,          \* argument obj: the root value
  targetKey,    \* argument targetKey of deepFindByKey
  targetValue,  \* argument targetValue of deepFindByValue
  compareFn,    \* argument compareFn of deepFindByValue
  pc,           \* position in the function body
  queue,        \* deepFindByKey: const queue
  stack,        \* deepFindByValue: const stack, entries [value, path]
  visited,      \* const visited = new Set<object>()
  current,      \* current / currentObj: the value taken off the frontier
  currentPath,  \* deepFindByValue: currentPath of the popped entry
  currentRoute, \* history: the route (owner, key hops) of the popped entry
  fieldIdx,     \* deepFindByValue: position of the for-in loop
  foundPaths,   \* deepFindByValue: const foundPaths
  result,       \* the value returned
  raised,       \* the exception that left the call, "none" if none
  expansions,   \* history: containers expanded so far (in order)
  comparisons,  \* history: number of compareFn invocations so far
  foundRoutes,  \* history: for each entry of foundPaths, the route it was found by
                \* (the stack's entries carry the route beside the path string)
  pathString,   \* argument pathString of parsePath
  lastIndex,    \* parsePath: segmentRegex.lastIndex, as a 1-based position
  keys,         \* parsePath: const keys
  match,        \* parsePath: let match, the result of the last exec()
  iterations    \* history: iterations of parsePath's while loop so far

vars == <<call, heap, obj, targetKey, targetValue, compareFn, pc, queue, stack,
          visited, current, currentPath, currentRoute, fieldIdx, foundPaths, result,
          raised, expansions, comparisons, foundRoutes,
          pathString, lastIndex, keys, match, iterations>>

\* the variables of parsePath
parseVars == <<pathString, lastIndex, keys, match, iterations>>

----------------------------------------------------------------------------
(* Bounds of the model *)

MaxContainers == 3

MaxFields == 2

MaxTotalFields == 4

----------------------------------------------------------------------------
(* JavaScript values *)

Undefined == [t |-> "undefined", v |-> 0]

Null == [t |-> "null", v |-> 0]

Num(n) == [t |-> "number", v |-> n]

Str(n) == [t |-> "string", v |-> n]

Bool(n) == [t |-> "boolean", v |-> n]

Ref(i) == [t |-> "object", v |-> i]

\* typeof x: null is an "object" to typeof
TypeOf(x) == IF x.t \in {"object", "null"} THEN "object" ELSE x.t

\* mutant: the null test is forgotten
IsSearchableTypeOfOnly(x) == TypeOf(x) = "object"

\* x !== null && typeof x === "object": a container the locators descend into
IsSearchable(x) == x # Null /\ TypeOf(x) = "object"

\* a === b on these values (containers by identity)
StrictEquals(a, b) == a = b

----------------------------------------------------------------------------
(* Strings *)

WhiteSpace == {" "}

Digits == <<"0", "1", "2", "3", "4", "5", "6", "7", "8", "9">>

\* String.prototype.trim() === ""
IsBlank(s) == \A i \in 1..Len(s) : s[i] \in WhiteSpace

RECURSIVE ToDecimal(_)
\* String(n) of an array index
ToDecimal(n) ==
  IF n < 10 THEN <<Digits[n + 1]>>
  ELSE ToDecimal(n \div 10) \o <<Digits[(n % 10) + 1]>>

LengthKey == <<"l", "e", "n", "g", "t", "h">>

----------------------------------------------------------------------------
(* parsePath(pathString): the tokenizer                                    *)
(*   /\.?(?:\[(['"])(.*?)\1\]|\[(\d+)\]|([^.\[\]]+))/g                       *)
(* applied with exec() until it finds no further match.  Positions are     *)
(* 1-based here; a match is [found, index, next, key]: where it starts,    *)
(* the position after it (lastIndex) and the group that took part.         *)

MetaChars == {".", "[", "]"}

Quotes == {"'", "\""}

IsDigit(ch) == \E i \in 1..Len(Digits) : Digits[i] = ch

NoMatch == [found |-> FALSE, index |-> 0, next |-> 0, key |-> <<>>]

Match(index, next, key) == [found |-> TRUE, index |-> index, next |-> next, key |-> key]

\* \[(['"])(.*?)\1\] at position q: the lazy (.*?) stops at the first place
\* where the opening quote and "]" follow
QuotedAt(s, q) ==
  IF q + 3 <= Len(s) /\ s[q] = "[" /\ s[q + 1] \in Quotes
     /\ \E e \in (q + 2)..(Len(s) - 1) : s[e] = s[q + 1] /\ s[e + 1] = "]"
  THEN LET e == CHOOSE e \in (q + 2)..(Len(s) - 1) :
                  /\ s[e] = s[q + 1] /\ s[e + 1] = "]"
                  /\ \A f \in (q + 2)..(e - 1) : ~(s[f] = s[q + 1] /\ s[f + 1] = "]")
       IN  Match(q, e + 2, SubSeq(s, q + 2, e - 1))
  ELSE NoMatch

\* \[(\d+)\] at position q
IndexAt(s, q) ==
  IF q + 2 <= Len(s) /\ s[q] = "["
     /\ \E e \in (q + 2)..Len(s) :
          s[e] = "]" /\ \A f \in (q + 1)..(e - 1) : IsDigit(s[f])
  THEN LET e == CHOOSE e \in (q + 2)..Len(s) :
                  s[e] = "]" /\ \A f \in (q + 1)..(e - 1) : IsDigit(s[f])
       IN  Match(q, e + 1, SubSeq(s, q + 1, e - 1))
  ELSE NoMatch

\* ([^.\[\]]+) at position q: the longest run without ".", "[" or "]"
BareAt(s, q) ==
  IF q <= Len(s) /\ s[q] \notin MetaChars
  THEN LET e == CHOOSE e \in q..Len(s) :
                  /\ \A f \in q..e : s[f] \notin MetaChars
                  /\ e = Len(s) \/ s[e + 1] \in MetaChars
       IN  Match(q, e + 1, SubSeq(s, q, e))
  ELSE NoMatch

\* mutant: the regex without its quoted-bracket alternative
SegmentAtNoQuoted(s, q) ==
  IF IndexAt(s, q).found THEN IndexAt(s, q) ELSE BareAt(s, q)

\* the alternation at position q, in the regex's order
SegmentAt(s, q) ==
  IF QuotedAt(s, q).found THEN QuotedAt(s, q)
  ELSE IF IndexAt(s, q).found THEN IndexAt(s, q)
  ELSE BareAt(s, q)

\* the whole regex anchored at position p: \.? takes the dot when there is one
\* (without it no alternative can start at a dot)
MatchAt(s, p) ==
  LET q == IF p <= Len(s) /\ s[p] = "." THEN p + 1 ELSE p
      m == SegmentAt(s, q)
  IN  IF m.found THEN Match(p, m.next, m.key) ELSE NoMatch

\* segmentRegex.exec(pathString) with lastIndex at position from: the leftmost
\* match at or after from
RegexExec(s, from) ==
  IF \E p \in from..Len(s) : MatchAt(s, p).found
  THEN MatchAt(s, CHOOSE p \in from..Len(s) :
                    MatchAt(s, p).found /\ \A r \in from..(p - 1) : ~MatchAt(s, r).found)
  ELSE NoMatch

\* mutant: a regex without the g flag, whose lastIndex never moves
LastIndexKept(from, m) == from

\* lastIndex after the loop body: exec() left it after the match, and a match
\* that did not advance forces it one character on
LastIndexAfter(from, m) == IF m.index = m.next THEN m.next + 1 ELSE m.next

RECURSIVE ScanSegments(_, _, _)
\* the while loop: push the key of each match
ScanSegments(s, from, ks) ==
  LET m == RegexExec(s, from)
  IN  IF ~m.found THEN ks
      ELSE ScanSegments(s, LastIndexAfter(from, m), Append(ks, m.key))

\* keys.length === 0 && pathString && !/[.\[\]]/.test(pathString): the whole
\* string becomes the only key
WithFallback(ks, path) ==
  IF ks = <<>> /\ path # <<>> /\ \A i \in 1..Len(path) : path[i] \notin MetaChars
  THEN <<path>>
  ELSE ks

\* parsePath of a string
parsePath(path) ==
  IF IsBlank(path) THEN <<>>
  ELSE WithFallback(ScanSegments(path, 1, <<>>), path)

----------------------------------------------------------------------------
(* The heap: containers are plain objects ("keyed") and arrays ("ordered"). *)
(* fields lists a container's own enumerable properties in enumeration     *)
(* order (the order of for-in and of Object.entries).                      *)

Field(k, x) == [key |-> k, val |-> x]

Kind(c) == heap[c].kind

Entries(c) == heap[c].fields

\* Array.isArray(value)
IsArray(x) == x.t = "object" /\ Kind(x.v) = "ordered"

\* c[key]
GetProperty(c, key) ==
  IF \E i \in 1..Len(Entries(c)) : Entries(c)[i].key = key
  THEN LET i == CHOOSE j \in 1..Len(Entries(c)) : Entries(c)[j].key = key
       IN  Entries(c)[i].val
  ELSE IF Kind(c) = "ordered" /\ key = LengthKey THEN Num(Len(Entries(c)))
  ELSE Undefined

\* mutant: a key counts as present only when its value is defined
\* (c[key] !== undefined)
HasDefinedProperty(c, key) == GetProperty(c, key) # Undefined

\* Object.prototype.hasOwnProperty.call(c, key): the enumerable fields, and
\* the non-enumerable length of an array
HasOwnProperty(c, key) ==
  \/ \E i \in 1..Len(Entries(c)) : Entries(c)[i].key = key
  \/ Kind(c) = "ordered" /\ key = LengthKey

----------------------------------------------------------------------------
(* The data graphs the calls are run on: every heap of at most             *)
(* MaxContainers containers, all reachable from container 1, with at most  *)
(* MaxFields fields per container and MaxTotalFields fields in all.        *)

Refs(n) == {Ref(i) : i \in 1..n}

\* plain objects: distinct keys drawn from names, in any insertion order
KeyedShapes(names, vals) ==
  {[kind |-> "keyed", fields |-> f] :
     f \in UNION {{g \in [1..m -> {Field(k, x) : k \in names, x \in vals}] :
                      \A i, j \in 1..m : i # j => g[i].key # g[j].key} :
                   m \in 0..MaxFields}}

\* dense arrays: element i is the own property String(i)
OrderedShapes(vals) ==
  {[kind |-> "ordered", fields |-> [i \in 1..Len(e) |-> Field(ToDecimal(i - 1), e[i])]] :
     e \in UNION {[1..m -> vals] : m \in 0..MaxFields}}

ChildrenIn(h, c) ==
  {h[c].fields[i].val.v : i \in {j \in 1..Len(h[c].fields) : h[c].fields[j].val.t = "object"}}

RECURSIVE ReachIn(_, _)
\* the containers reachable in h from the set seen
ReachIn(h, seen) ==
  LET more == seen \cup UNION {ChildrenIn(h, c) : c \in seen}
  IN  IF more = seen THEN seen ELSE ReachIn(h, more)

RECURSIVE SumFields(_, _)
SumFields(h, n) == IF n = 0 THEN 0 ELSE Len(h[n].fields) + SumFields(h, n - 1)

Heaps(names, scalars) ==
  UNION {{h \in [1..n -> KeyedShapes(names, scalars \cup Refs(n))
                          \cup OrderedShapes(scalars \cup Refs(n))] :
            /\ SumFields(h, n) <= MaxTotalFields
            /\ ReachIn(h, {1}) = 1..n} :
         n \in 1..MaxContainers}

----------------------------------------------------------------------------
(* deepFindByKey(obj, targetKey) *)

KeyNames == {<<"k">>, <<"a">>}

FieldScalars == {Num(1), Null, Undefined}

\* the roots that are not containers
ScalarRoots == {Null, Undefined, Num(1), Str(1), Bool(1)}

\* what a caller may pass as targetKey: strings, and a value that is no string
TargetKeys ==
  {[isString |-> TRUE, chars |-> s] : s \in {<<"k">>, <<"0">>, LengthKey, <<>>, <<" ">>}}
    \cup {[isString |-> FALSE, chars |-> <<>>]}

\* typeof targetKey !== "string" || targetKey.trim() === ""
InvalidTargetKey(key) == ~key.isString \/ IsBlank(key.chars)

\* the values of Object.entries(c), in order
EntryValues(c) == [i \in 1..Len(Entries(c)) |-> Entries(c)[i].val]

IsSearchableObject(x) == IsSearchable(x) /\ ~IsArray(x)

\* mutant: nested arrays are not pushed
NestedValuesNoArrays(c) == SelectSeq(EntryValues(c), IsSearchableObject)

\* the values deepFindByKey pushes for container c
NestedValues(c) == SelectSeq(EntryValues(c), IsSearchable)

Idle ==
  /\ queue = <<>>
  /\ stack = <<>>
  /\ visited = {}
  /\ current = Undefined
  /\ currentPath = <<>>
  /\ currentRoute = <<>>
  /\ fieldIdx = 0
  /\ foundPaths = <<>>
  /\ result = Undefined
  /\ raised = "none"
  /\ expansions = <<>>
  /\ comparisons = 0
  /\ foundRoutes = <<>>
  /\ lastIndex = 1
  /\ keys = <<>>
  /\ match = NoMatch
  /\ iterations = 0

\* no path is being parsed
NoPath == [isString |-> FALSE, chars |-> <<>>]

InitKey ==
  /\ call = "deepFindByKey"
  /\ \/ obj = Ref(1) /\ heap \in Heaps(KeyNames, FieldScalars)
     \/ obj \in ScalarRoots /\ heap = <<>>
  /\ targetKey \in TargetKeys
  /\ targetValue = Undefined
  /\ compareFn = "undefined"
  /\ pathString = NoPath
  /\ pc = "start"
  /\ Idle

\* if (typeof targetKey !== "string" || targetKey.trim() === "") throw new TypeError
KeyThrowTypeError ==
  /\ call = "deepFindByKey" /\ pc = "start"
  /\ InvalidTargetKey(targetKey)
  /\ raised' = "TypeError"
  /\ pc' = "raised"
  /\ UNCHANGED parseVars
  /\ UNCHANGED <<call, heap, obj, targetKey, targetValue, compareFn, queue, stack,
                 visited, current, currentPath, currentRoute, fieldIdx, foundPaths, result,
                 expansions, comparisons, foundRoutes>>

\* if (obj === null || typeof obj !== "object") return undefined
KeyReturnNotSearchable ==
  /\ call = "deepFindByKey" /\ pc = "start"
  /\ ~InvalidTargetKey(targetKey)
  /\ ~IsSearchable(obj)
  /\ result' = Undefined
  /\ pc' = "done"
  /\ UNCHANGED parseVars
  /\ UNCHANGED <<call, heap, obj, targetKey, targetValue, compareFn, queue, stack,
                 visited, current, currentPath, currentRoute, fieldIdx, foundPaths, raised,
                 expansions, comparisons, foundRoutes>>

\* const queue = [obj]; const visited = new Set()
KeyBegin ==
  /\ call = "deepFindByKey" /\ pc = "start"
  /\ ~InvalidTargetKey(targetKey)
  /\ IsSearchable(obj)
  /\ queue' = <<obj>>
  /\ visited' = {}
  /\ pc' = "loop"
  /\ UNCHANGED parseVars
  /\ UNCHANGED <<call, heap, obj, targetKey, targetValue, compareFn, stack,
                 current, currentPath, currentRoute, fieldIdx, foundPaths, result, raised,
                 expansions, comparisons, foundRoutes>>

\* mutant: the loop stops one entry early (queue.length > 1)
QueueMoreThanOne(q) == Len(q) > 1

\* while (queue.length > 0)
QueueNotEmpty(q) == Len(q) > 0

\* mutant: the frontier is used as a stack (queue.pop())
QueuePop(q) == [value |-> q[Len(q)], rest |-> SubSeq(q, 1, Len(q) - 1)]

\* queue.shift(): the oldest entry leaves the queue
QueueShift(q) == [value |-> Head(q), rest |-> Tail(q)]

\* mutant: the container is never recorded
VisitedKept(seen, value) == seen

\* visited.add(current)
VisitedAdd(seen, value) == seen \cup {value.v}

\* mutant: no cycle guard
KeyNeverVisited(value, seen) == FALSE

\* if (visited.has(current)) continue
KeyAlreadyVisited(value, seen) == value.v \in seen

\* const current = queue.shift(); skip what is no container or was visited;
\* visited.add(current)
KeyShift ==
  /\ call = "deepFindByKey" /\ pc = "loop"
  /\ QueueNotEmpty(queue)
  /\ current' = QueueShift(queue).value
  /\ queue' = QueueShift(queue).rest
  /\ IF ~IsSearchable(current') \/ KeyAlreadyVisited(current', visited)
     THEN UNCHANGED <<visited, expansions, pc>>
     ELSE /\ visited' = VisitedAdd(visited, current')
          /\ expansions' = Append(expansions, current'.v)
          /\ pc' = "check"
  /\ UNCHANGED parseVars
  /\ UNCHANGED <<call, heap, obj, targetKey, targetValue, compareFn, stack,
                 currentPath, currentRoute, fieldIdx, foundPaths, result, raised,
                 comparisons, foundRoutes>>

\* if (hasOwnProperty.call(current, targetKey)) return current[targetKey]
KeyReturnFound ==
  /\ call = "deepFindByKey" /\ pc = "check"
  /\ HasOwnProperty(current.v, targetKey.chars)
  /\ result' = GetProperty(current.v, targetKey.chars)
  /\ pc' = "done"
  /\ UNCHANGED parseVars
  /\ UNCHANGED <<call, heap, obj, targetKey, targetValue, compareFn, queue, stack,
                 visited, current, currentPath, currentRoute, fieldIdx, foundPaths, raised,
                 expansions, comparisons, foundRoutes>>

\* for (const [, value] of Object.entries(current)) if (value is a container) queue.push(value)
KeyEnqueue ==
  /\ call = "deepFindByKey" /\ pc = "check"
  /\ ~HasOwnProperty(current.v, targetKey.chars)
  /\ queue' = queue \o NestedValues(current.v)
  /\ pc' = "loop"
  /\ UNCHANGED parseVars
  /\ UNCHANGED <<call, heap, obj, targetKey, targetValue, compareFn, stack,
                 visited, current, currentPath, currentRoute, fieldIdx, foundPaths, result, raised,
                 expansions, comparisons, foundRoutes>>

\* while (queue.length > 0) ends; return undefined
KeyReturnNotFound ==
  /\ call = "deepFindByKey" /\ pc = "loop"
  /\ ~QueueNotEmpty(queue)
  /\ result' = Undefined
  /\ pc' = "done"
  /\ UNCHANGED parseVars
  /\ UNCHANGED <<call, heap, obj, targetKey, targetValue, compareFn, queue, stack,
                 visited, current, currentPath, currentRoute, fieldIdx, foundPaths, raised,
                 expansions, comparisons, foundRoutes>>

NextKey ==
  \/ KeyThrowTypeError
  \/ KeyReturnNotSearchable
  \/ KeyBegin
  \/ KeyShift
  \/ KeyReturnFound
  \/ KeyEnqueue
  \/ KeyReturnNotFound

SpecKey == InitKey /\ [][NextKey]_vars

----------------------------------------------------------------------------
(* deepFindByValue(obj, targetValue, compareFn) *)

\* what a caller may pass as compareFn: nothing, a value that is no function,
\* or a function
NotCallable == {"null", "number"}

CompareFunctions == {"faultyCompare", "throwsNoString"}

\* typeof compareFn === "function", after the default parameter has replaced undefined
IsFunction(fn) == fn \in CompareFunctions \cup {"undefined"}

\* compareFn(a, b): "true", "false", or what it throws.
\*   undefined        the default (a, b) => a === b
\*   faultyCompare    throws a TypeError (an Error) for a container, else a === b
\*   throwsNoString   the same, but throws Object.create(null), a value that
\*                    String() cannot convert
CompareFn(fn, a, b) ==
  IF fn = "faultyCompare" /\ IsSearchable(a) THEN "throwError"
  ELSE IF fn = "throwsNoString" /\ IsSearchable(a) THEN "throwNoString"
  ELSE IF StrictEquals(a, b) THEN "true" ELSE "false"

\* the catch block: error instanceof Error ? error.message : String(error),
\* which itself throws a TypeError for a value that has no string conversion
CatchCompletes(outcome) == outcome # "throwNoString"

\* the path string of key under the container currentObj reached by path
NewPath(path, currentObj, key) ==
  IF path = <<>> THEN key
  ELSE IF IsArray(currentObj) THEN path \o <<"[">> \o key \o <<"]">>
  ELSE path \o <<".">> \o key

StackEntry(value, path, route) == [value |-> value, path |-> path, route |-> route]

Hop(owner, key) == [owner |-> owner, key |-> key]

InitValueWith(names) ==
  /\ call = "deepFindByValue"
  /\ \/ /\ obj = Ref(1)
        /\ heap \in Heaps(names, {Num(1), Null})
        /\ targetValue \in {Num(1), Ref(1)}
     \/ /\ obj \in ScalarRoots
        /\ heap = <<>>
        /\ targetValue = Num(1)
  /\ compareFn \in {"undefined"} \cup NotCallable \cup CompareFunctions
  /\ targetKey = [isString |-> FALSE, chars |-> <<>>]
  /\ pathString = NoPath
  /\ pc = "start"
  /\ Idle

\* if (compareFn !== undefined && typeof compareFn !== "function") throw new TypeError
ValThrowTypeError ==
  /\ call = "deepFindByValue" /\ pc = "start"
  /\ ~IsFunction(compareFn)
  /\ raised' = "TypeError"
  /\ pc' = "raised"
  /\ UNCHANGED parseVars
  /\ UNCHANGED <<call, heap, obj, targetKey, targetValue, compareFn, queue, stack,
                 visited, current, currentPath, currentRoute, fieldIdx, foundPaths,
                 result, expansions, comparisons, foundRoutes>>

\* if (obj === null || typeof obj !== "object") return foundPaths
ValReturnNotSearchable ==
  /\ call = "deepFindByValue" /\ pc = "start"
  /\ IsFunction(compareFn)
  /\ ~IsSearchable(obj)
  /\ result' = foundPaths
  /\ pc' = "done"
  /\ UNCHANGED parseVars
  /\ UNCHANGED <<call, heap, obj, targetKey, targetValue, compareFn, queue, stack,
                 visited, current, currentPath, currentRoute, fieldIdx, foundPaths,
                 raised, expansions, comparisons, foundRoutes>>

\* mutant: the root is compared too, and reported under the empty path
RootAsCandidate(fn, root, target) ==
  IF CompareFn(fn, root, target) = "true" THEN <<<<>>>> ELSE <<>>

\* const foundPaths: string[] = []
NoPathsYet(fn, root, target) == <<>>

\* const foundPaths = []; const stack = [[obj, ""]]; const visited = new Set()
ValBegin ==
  /\ call = "deepFindByValue" /\ pc = "start"
  /\ IsFunction(compareFn)
  /\ IsSearchable(obj)
  /\ foundPaths' = NoPathsYet(compareFn, obj, targetValue)
  /\ stack' = <<StackEntry(obj, <<>>, <<>>)>>
  /\ visited' = {}
  /\ pc' = "loop"
  /\ UNCHANGED parseVars
  /\ UNCHANGED <<call, heap, obj, targetKey, targetValue, compareFn, queue,
                 current, currentPath, currentRoute, fieldIdx, result,
                 raised, expansions, comparisons, foundRoutes>>

\* mutant: no cycle guard
NeverVisited(value, seen) == FALSE

\* if (visited.has(currentObj)) continue
AlreadyVisited(value, seen) == value.v \in seen

\* const [currentObj, currentPath] = stack.pop(); skip what is no container or
\* was visited; visited.add(currentObj); start the for-in loop
ValPop ==
  /\ call = "deepFindByValue" /\ pc = "loop"
  /\ stack # <<>>
  /\ LET top == stack[Len(stack)]
     IN  /\ current' = top.value
         /\ currentPath' = top.path
         /\ currentRoute' = top.route
         /\ stack' = SubSeq(stack, 1, Len(stack) - 1)
         /\ IF ~IsSearchable(top.value) \/ AlreadyVisited(top.value, visited)
            THEN UNCHANGED <<visited, expansions, fieldIdx, pc>>
            ELSE /\ visited' = VisitedAdd(visited, top.value)
                 /\ expansions' = Append(expansions, top.value.v)
                 /\ fieldIdx' = 1
                 /\ pc' = "fields"
  /\ UNCHANGED parseVars
  /\ UNCHANGED <<call, heap, obj, targetKey, targetValue, compareFn, queue,
                 foundPaths, result, raised, comparisons, foundRoutes>>

\* mutant: a match is put in front of the earlier ones (foundPaths.unshift)
ReportInFront(paths, outcome, newPath) ==
  IF outcome = "true" THEN <<newPath>> \o paths ELSE paths

\* foundPaths after the comparison at newPath ended with outcome
Report(paths, outcome, newPath) ==
  IF outcome = "true" THEN Append(paths, newPath) ELSE paths

\* one iteration of for (const key in currentObj): build newPath, compare inside
\* try/catch, push the value if it is a container
ValVisitField ==
  /\ call = "deepFindByValue" /\ pc = "fields"
  /\ fieldIdx <= Len(Entries(current.v))
  /\ LET key == Entries(current.v)[fieldIdx].key
         value == Entries(current.v)[fieldIdx].val
         newPath == NewPath(currentPath, current, key)
         newRoute == Append(currentRoute, Hop(current.v, key))
         outcome == CompareFn(compareFn, value, targetValue)
     IN  /\ CatchCompletes(outcome)
         /\ comparisons' = comparisons + 1
         /\ foundPaths' = Report(foundPaths, outcome, newPath)
         /\ foundRoutes' = Report(foundRoutes, outcome, newRoute)
         /\ stack' = IF IsSearchable(value)
                     THEN Append(stack, StackEntry(value, newPath, newRoute))
                     ELSE stack
  /\ fieldIdx' = fieldIdx + 1
  /\ UNCHANGED parseVars
  /\ UNCHANGED <<call, heap, obj, targetKey, targetValue, compareFn, queue, visited,
                 current, currentPath, currentRoute, pc, result, raised, expansions>>

\* compareFn threw a value the catch block cannot print: String(error) throws a
\* TypeError from inside the handler, which leaves deepFindByValue
ValCatchThrows ==
  /\ call = "deepFindByValue" /\ pc = "fields"
  /\ fieldIdx <= Len(Entries(current.v))
  /\ ~CatchCompletes(CompareFn(compareFn, Entries(current.v)[fieldIdx].val, targetValue))
  /\ comparisons' = comparisons + 1
  /\ raised' = "TypeError"
  /\ pc' = "raised"
  /\ UNCHANGED parseVars
  /\ UNCHANGED <<call, heap, obj, targetKey, targetValue, compareFn, queue, stack,
                 visited, current, currentPath, currentRoute, fieldIdx, foundPaths,
                 result, expansions, foundRoutes>>

\* the for-in loop has no key left: back to while (stack.length > 0)
ValFieldsDone ==
  /\ call = "deepFindByValue" /\ pc = "fields"
  /\ fieldIdx > Len(Entries(current.v))
  /\ pc' = "loop"
  /\ UNCHANGED parseVars
  /\ UNCHANGED <<call, heap, obj, targetKey, targetValue, compareFn, queue, stack,
                 visited, current, currentPath, currentRoute, fieldIdx, foundPaths,
                 result, raised, expansions, comparisons, foundRoutes>>

\* while (stack.length > 0) ends; return foundPaths
ValReturn ==
  /\ call = "deepFindByValue" /\ pc = "loop"
  /\ stack = <<>>
  /\ result' = foundPaths
  /\ pc' = "done"
  /\ UNCHANGED parseVars
  /\ UNCHANGED <<call, heap, obj, targetKey, targetValue, compareFn, queue, stack,
                 visited, current, currentPath, currentRoute, fieldIdx, foundPaths,
                 raised, expansions, comparisons, foundRoutes>>

NextValue ==
  \/ ValThrowTypeError
  \/ ValReturnNotSearchable
  \/ ValBegin
  \/ ValPop
  \/ ValVisitField
  \/ ValCatchThrows
  \/ ValFieldsDone
  \/ ValReturn

ValueKeyNames == {<<"a">>, <<>>}

InitValue == InitValueWith(ValueKeyNames)

SpecValue == InitValue /\ [][NextValue]_vars

\* the same calls on graphs whose keys may hold a dot
DottedKeyNames == {<<"a">>, <<"a", ".", "b">>}

InitDotted == InitValueWith(DottedKeyNames)

SpecDotted == InitDotted /\ [][NextValue]_vars

----------------------------------------------------------------------------
(* parsePath(pathString), statement by statement *)

MaxPathLen == 6

\* the liveness check runs on shorter strings
MaxFairPathLen == 4

PathChars == {"a", "0", " ", ".", "[", "]", "'", "\""}

\* the liveness check leaves out the blank and the second quote
FairPathChars == {"a", "0", ".", "[", "]", "'"}

\* what a caller may pass as pathString: strings of up to n characters, and
\* null or undefined
PathStrings(chars, n) ==
  {[isString |-> TRUE, chars |-> c] : c \in UNION {[1..m -> chars] : m \in 0..n}}
    \cup {NoPath}

InitParseWith(paths) ==
  /\ call = "parsePath"
  /\ pathString \in paths
  /\ heap = <<>>
  /\ obj = Undefined
  /\ targetKey = [isString |-> FALSE, chars |-> <<>>]
  /\ targetValue = Undefined
  /\ compareFn = "undefined"
  /\ pc = "start"
  /\ Idle

InitParse == InitParseWith(PathStrings(PathChars, MaxPathLen))

InitFairParse == InitParseWith(PathStrings(FairPathChars, MaxFairPathLen))

\* if (typeof pathString !== "string" || pathString.trim() === "") return []
ParseReturnEmpty ==
  /\ call = "parsePath" /\ pc = "start"
  /\ ~pathString.isString \/ IsBlank(pathString.chars)
  /\ result' = <<>>
  /\ pc' = "done"
  /\ UNCHANGED parseVars
  /\ UNCHANGED <<call, heap, obj, targetKey, targetValue, compareFn, queue, stack,
                 visited, current, currentPath, currentRoute, fieldIdx, foundPaths,
                 raised, expansions, comparisons, foundRoutes>>

\* const keys = []; const segmentRegex = /.../g (lastIndex 0); let match
ParseBegin ==
  /\ call = "parsePath" /\ pc = "start"
  /\ pathString.isString /\ ~IsBlank(pathString.chars)
  /\ keys' = <<>>
  /\ lastIndex' = 1
  /\ pc' = "scan"
  /\ UNCHANGED <<pathString, match, iterations>>
  /\ UNCHANGED <<call, heap, obj, targetKey, targetValue, compareFn, queue, stack,
                 visited, current, currentPath, currentRoute, fieldIdx, foundPaths,
                 result, raised, expansions, comparisons, foundRoutes>>

\* the loop condition: match = segmentRegex.exec(pathString)
ParseExec ==
  /\ call = "parsePath" /\ pc = "scan"
  /\ match' = RegexExec(pathString.chars, lastIndex)
  /\ pc' = "matched"
  /\ UNCHANGED <<pathString, lastIndex, keys, iterations>>
  /\ UNCHANGED <<call, heap, obj, targetKey, targetValue, compareFn, queue, stack,
                 visited, current, currentPath, currentRoute, fieldIdx, foundPaths,
                 result, raised, expansions, comparisons, foundRoutes>>

\* match !== null, the loop body: push the group that matched; exec() has left
\* lastIndex after the match, and an empty match forces it one character on
ParseSegment ==
  /\ call = "parsePath" /\ pc = "matched"
  /\ match.found
  /\ keys' = Append(keys, match.key)
  /\ lastIndex' = LastIndexAfter(lastIndex, match)
  /\ iterations' = iterations + 1
  /\ pc' = "scan"
  /\ UNCHANGED <<pathString, match>>
  /\ UNCHANGED <<call, heap, obj, targetKey, targetValue, compareFn, queue, stack,
                 visited, current, currentPath, currentRoute, fieldIdx, foundPaths,
                 result, raised, expansions, comparisons, foundRoutes>>

\* match === null: the fallback for a string without metacharacters, then
\* return keys
ParseReturn ==
  /\ call = "parsePath" /\ pc = "matched"
  /\ ~match.found
  /\ keys' = WithFallback(keys, pathString.chars)
  /\ result' = keys'
  /\ pc' = "done"
  /\ UNCHANGED <<pathString, lastIndex, match, iterations>>
  /\ UNCHANGED <<call, heap, obj, targetKey, targetValue, compareFn, queue, stack,
                 visited, current, currentPath, currentRoute, fieldIdx, foundPaths,
                 raised, expansions, comparisons, foundRoutes>>

NextParse ==
  \/ ParseReturnEmpty
  \/ ParseBegin
  \/ ParseExec
  \/ ParseSegment
  \/ ParseReturn

SpecParse == InitParse /\ [][NextParse]_vars

\* parsePath is synchronous: it keeps running until it returns
FairParse == InitFairParse /\ [][NextParse]_vars /\ WF_vars(NextParse)

----------------------------------------------------------------------------
(* Either locator, called once *)

Init == InitKey \/ InitValue

Next == NextKey \/ NextValue

Spec == Init /\ [][Next]_vars

\* a call is synchronous and single-threaded: it keeps running until it ends
FairSpec == Spec /\ WF_vars(Next)

----------------------------------------------------------------------------
(* The graph seen from the root, independently of the traversals *)

Returned == pc = "done"

Ended == pc \in {"done", "raised"}

\* the containers reachable from the root
Reachable == IF IsSearchable(obj) THEN ReachIn(heap, {obj.v}) ELSE {}

RECURSIVE WithinHops(_)
\* the containers at most d container-hops from the root
WithinHops(d) ==
  IF d = 0 THEN {obj.v}
  ELSE WithinHops(d - 1) \cup UNION {ChildrenIn(heap, c) : c \in WithinHops(d - 1)}

\* the container-hop distance of a reachable container from the root
Depth(c) == CHOOSE d \in 0..Len(heap) : c \in WithinHops(d) /\ \A e \in 0..(d - 1) : c \notin WithinHops(e)

\* the reachable containers that own a field named targetKey
Owners == {c \in Reachable : HasOwnProperty(c, targetKey.chars)}

KeySearch == call = "deepFindByKey" /\ IsSearchable(obj) /\ ~InvalidTargetKey(targetKey)

\* the container deepFindByKey examined last: the one whose field it returns
LastExpanded == expansions[Len(expansions)]

IsContainerValue(x) == x.t = "object"

\* the containers held by the fields of c, in enumeration order
ContainerChildren(c) ==
  LET kids == SelectSeq(EntryValues(c), IsContainerValue)
  IN  [i \in 1..Len(kids) |-> kids[i].v]

InSeq(order, c) == \E i \in 1..Len(order) : order[i] = c

RECURSIVE AppendNew(_, _)
\* order followed by the containers of kids it does not hold yet
AppendNew(order, kids) ==
  IF kids = <<>> THEN order
  ELSE AppendNew(IF InSeq(order, Head(kids)) THEN order ELSE Append(order, Head(kids)),
                 Tail(kids))

RECURSIVE EnqueueOrderFrom(_, _)
EnqueueOrderFrom(order, i) ==
  IF i > Len(order) THEN order
  ELSE EnqueueOrderFrom(AppendNew(order, ContainerChildren(order[i])), i + 1)

\* the containers in the order a level-by-level walk first enqueues them: the
\* root, then the children of each container in turn, in its enumeration order
EnqueueOrder == EnqueueOrderFrom(<<obj.v>>, 1)

Position(c) == CHOOSE i \in 1..Len(EnqueueOrder) : EnqueueOrder[i] = c

\* the owners of targetKey at the minimum depth
MinOwners == {o \in Owners : \A p \in Owners : Depth(o) <= Depth(p)}

FirstEnqueued(set) == CHOOSE c \in set : \A d \in set : Position(c) <= Position(d)

\* some container lies on a cycle
HasCycle == \E c \in Reachable : c \in ReachIn(heap, ChildrenIn(heap, c))

ValidArguments ==
  \/ call = "deepFindByKey" /\ targetKey.isString /\ ~IsBlank(targetKey.chars)
  \/ call = "deepFindByValue" /\ compareFn \in {"undefined"} \cup CompareFunctions

ValueSearch == call = "deepFindByValue" /\ IsSearchable(obj) /\ IsFunction(compareFn)

\* a location: a reachable container and one of its own keys
Locations == UNION {{<<c, Entries(c)[i].key>> : i \in 1..Len(Entries(c))} : c \in Reachable}

\* the locations whose value makes compareFn(value, targetValue) return true
MatchingLocations ==
  {l \in Locations : CompareFn(compareFn, GetProperty(l[1], l[2]), targetValue) = "true"}

\* the location a route ends at
LocationOf(route) == <<route[Len(route)].owner, route[Len(route)].key>>

\* the locations deepFindByValue has reported
FoundLocations == {LocationOf(foundRoutes[i]) : i \in 1..Len(foundRoutes)}

\* the value a route ends at
ValueAt(route) == GetProperty(route[Len(route)].owner, route[Len(route)].key)

RouteOwners(route) == {route[i].owner : i \in 1..Len(route)}

RouteKeys(route) == [i \in 1..Len(route) |-> route[i].key]

\* the one-hop routes out of container c
HopsFrom(route, c) == {Append(route, Hop(c, Entries(c)[i].key)) : i \in 1..Len(Entries(c))}

RECURSIVE RoutesExtending(_)
\* route and every longer route through containers that route has not passed
RoutesExtending(route) ==
  LET x == ValueAt(route)
  IN  IF IsSearchable(x) /\ x.v \notin RouteOwners(route)
      THEN {route} \cup UNION {RoutesExtending(r) : r \in HopsFrom(route, x.v)}
      ELSE {route}

\* every route from the root that repeats no container
SimpleRoutes ==
  IF IsSearchable(obj)
  THEN UNION {RoutesExtending(r) : r \in HopsFrom(<<>>, obj.v)}
  ELSE {}

RECURSIVE Notation(_)
\* the path notation of a route: the first key bare, then .key under a keyed
\* owner and [key] under an ordered owner
Notation(route) ==
  IF Len(route) = 1 THEN route[1].key
  ELSE LET last == route[Len(route)]
       IN  Notation(SubSeq(route, 1, Len(route) - 1))
             \o (IF Kind(last.owner) = "ordered"
                 THEN <<"[">> \o last.key \o <<"]">>
                 ELSE <<".">> \o last.key)

----------------------------------------------------------------------------
(* Claims *)

\* C1: when some container reachable from a container root owns targetKey,
\* deepFindByKey returns the value of that field in a container at the minimum
\* container-hop distance from the root: no owner is strictly closer.
C1_ShallowestOccurrence ==
  (KeySearch /\ Returned /\ Owners # {}) =>
     /\ expansions # <<>>
     /\ LastExpanded \in Owners
     /\ result = GetProperty(LastExpanded, targetKey.chars)
     /\ \A o \in Owners : Depth(LastExpanded) <= Depth(o)

\* a call that returned the field of a container below the root while a
\* deeper container owns the key as well
C1_Witness ==
  /\ KeySearch /\ Returned /\ expansions # <<>>
  /\ LastExpanded \in Owners
  /\ Depth(LastExpanded) >= 1
  /\ \E o \in Owners : Depth(o) > Depth(LastExpanded)

\* C2: deepFindByValue reports every route from the root (a chain of keys through
\* containers that repeats no container) whose final value satisfies compareFn,
\* also when one container is reachable by two different routes.  foundPaths[i]
\* is the path string the call emitted for route foundRoutes[i].
C2_EveryRouteReported ==
  (ValueSearch /\ Returned) =>
     \A r \in SimpleRoutes :
        CompareFn(compareFn, ValueAt(r), targetValue) = "true"
          => \E i \in 1..Len(result) : foundRoutes[i] = r

\* C3: the sequence deepFindByValue returns has exactly one entry per matching
\* location (reachable container, own key whose value satisfies compareFn);
\* entries are not merged by value identity.
C3_OneEntryPerLocation ==
  (ValueSearch /\ Returned) =>
     /\ Len(result) = Len(foundRoutes)
     /\ FoundLocations = MatchingLocations
     /\ Len(result) = Cardinality(MatchingLocations)

\* the root searched for in a graph where two fields point back to it
C3_Witness ==
  /\ ValueSearch /\ Returned
  /\ targetValue = obj
  /\ Len(result) >= 2
  /\ \A l \in FoundLocations : GetProperty(l[1], l[2]) = obj

\* C4: every path string deepFindByValue reports is the notation of its route:
\* the root's key bare, each later key as .key under a keyed owner and as [key]
\* under an ordered owner, for every key including the empty string.
C4_PathNotation ==
  call = "deepFindByValue" =>
     \A i \in 1..Len(foundPaths) : foundPaths[i] = Notation(foundRoutes[i])

\* C5: parsePath applied to a path string deepFindByValue returned gives back
\* the keys of the route, in order.
C5_RoundTrip ==
  (ValueSearch /\ Returned) =>
     \A i \in 1..Len(result) : parsePath(result[i]) = RouteKeys(foundRoutes[i])

\* C6: on every finite graph, cycles and self-references included, a call of
\* either locator ends, and it expands at most as many containers as are
\* reachable from the root.
C6_Termination ==
  /\ <>Ended
  /\ [](Len(expansions) <= Cardinality(Reachable))

\* a call that ended on a graph with a cycle, every container expanded once
C6_Witness ==
  /\ Ended /\ HasCycle
  /\ Cardinality(Reachable) >= 2
  /\ Len(expansions) = Cardinality(Reachable)

\* C7: a compareFn that throws never makes deepFindByValue raise, the candidate
\* it threw for alone counts as not matching, every other matching location is
\* reported, and every reachable container is still descended into.
C7_FaultIsolation ==
  (call = "deepFindByValue" /\ IsFunction(compareFn)) =>
     /\ raised = "none"
     /\ Returned =>
          /\ FoundLocations = MatchingLocations
          /\ {expansions[i] : i \in 1..Len(expansions)} = Reachable

\* C8: an invalid targetKey (deepFindByKey) or a supplied compareFn that is not
\* callable (deepFindByValue) raises TypeError before any container is visited
\* or compared, whatever the root; nothing else makes either locator raise.
C8_InvalidArguments ==
  /\ (~ValidArguments /\ pc # "start") =>
        /\ pc = "raised" /\ raised = "TypeError"
        /\ visited = {} /\ expansions = <<>> /\ comparisons = 0
  /\ pc = "raised" => ~ValidArguments

\* C9: for a root that is no container and valid remaining arguments,
\* deepFindByKey returns undefined and deepFindByValue returns the empty
\* sequence, without raising and without calling compareFn.
C9_ScalarRoot ==
  (obj \in ScalarRoots /\ ValidArguments) =>
     /\ pc \in {"start", "done"}
     /\ raised = "none"
     /\ comparisons = 0 /\ expansions = <<>>
     /\ Returned => result = (IF call = "deepFindByKey" THEN Undefined ELSE <<>>)

\* deepFindByValue returned for a null root
C9_Witness ==
  /\ Returned /\ obj = Null /\ ValidArguments
  /\ call = "deepFindByValue" /\ result = <<>>

\* C10: when several containers at the minimum depth own targetKey,
\* deepFindByKey returns the field of the one enqueued first, containers being
\* enqueued level by level and, within a parent, in its enumeration order.
C10_TieBreak ==
  (KeySearch /\ Returned /\ Owners # {}) =>
     /\ expansions # <<>>
     /\ LastExpanded = FirstEnqueued(MinOwners)
     /\ result = GetProperty(FirstEnqueued(MinOwners), targetKey.chars)

\* two owners at the minimum depth holding different values
C10_Witness ==
  /\ KeySearch /\ Returned
  /\ \E a, b \in MinOwners :
        /\ a # b
        /\ GetProperty(a, targetKey.chars) # GetProperty(b, targetKey.chars)
        /\ result = GetProperty(a, targetKey.chars)

\* container c has an enumerable field named targetKey whose value is undefined
BindsUndefined(c) ==
  \E i \in 1..Len(Entries(c)) :
     Entries(c)[i].key = targetKey.chars /\ Entries(c)[i].val = Undefined

\* C11: in deepFindByKey a field named targetKey that is bound to undefined
\* counts as found: a container holding such a field, once dequeued and examined,
\* is the last container examined; the search does not go on to enqueue its
\* children, and the call returns undefined.
C11_UndefinedCountsAsFound ==
  KeySearch =>
     \A i \in 1..Len(expansions) :
        BindsUndefined(expansions[i]) =>
           /\ i = Len(expansions)
           /\ pc \in {"check", "done"}
           /\ Returned => result = Undefined

\* the call returned undefined from a field bound to undefined while a reachable
\* container it never examined binds targetKey to a defined value
C11_Witness ==
  /\ KeySearch /\ Returned /\ result = Undefined
  /\ expansions # <<>> /\ BindsUndefined(LastExpanded)
  /\ \E c \in Reachable :
        /\ \A i \in 1..Len(expansions) : expansions[i] # c
        /\ HasOwnProperty(c, targetKey.chars)
        /\ GetProperty(c, targetKey.chars) = Num(1)

\* C12: when no reachable container, keyed or ordered, owns targetKey,
\* deepFindByKey returns undefined, and it does so with the frontier empty and
\* every reachable container examined.
C12_AbsentKey ==
  (KeySearch /\ Returned /\ Owners = {}) =>
     /\ result = Undefined
     /\ queue = <<>>
     /\ {expansions[i] : i \in 1..Len(expansions)} = Reachable

\* the key is owned nowhere in a graph of several containers, an array among them
C12_Witness ==
  /\ KeySearch /\ Returned /\ Owners = {}
  /\ result = Undefined
  /\ Cardinality(Reachable) >= 2
  /\ \E c \in Reachable : Kind(c) = "ordered"

\* the step-by-step parsePath returns what the function parsePath computes
ParseAgrees ==
  (call = "parsePath" /\ Returned /\ pathString.isString) =>
     result = parsePath(pathString.chars)

----------------------------------------------------------------------------
(* The path grammar, independently of the tokenizer: a path expression is a *)
(* chain of tokens, each optionally preceded by ".".  A token is a maximal  *)
(* bare run of characters other than ".", "[" and "]", a bracketed run of   *)
(* digits, or a quoted bracket, whose contents end where its quote followed *)
(* by "]" first occurs.                                                     *)

GrammarToken(len, contents) == [len |-> len, contents |-> contents]

\* the bare tokens s can start with: the run ends at a metacharacter or at the end
BareTokens(s) ==
  {GrammarToken(n, SubSeq(s, 1, n)) : n \in {m \in 1..Len(s) :
      /\ \A i \in 1..m : s[i] \notin MetaChars
      /\ m = Len(s) \/ s[m + 1] \in MetaChars}}

\* the [digits] tokens s can start with
IndexTokens(s) ==
  {GrammarToken(n, SubSeq(s, 2, n - 1)) : n \in {m \in 3..Len(s) :
      /\ s[1] = "[" /\ s[m] = "]"
      /\ \A i \in 2..(m - 1) : IsDigit(s[i])}}

\* the quoted bracket tokens s can start with
QuotedTokens(s) ==
  {GrammarToken(n, SubSeq(s, 3, n - 2)) : n \in {m \in 4..Len(s) :
      /\ s[1] = "[" /\ s[2] \in Quotes
      /\ s[m - 1] = s[2] /\ s[m] = "]"
      /\ \A i \in 3..(m - 2) : ~(s[i] = s[2] /\ s[i + 1] = "]")}}

TokensAt(s) == BareTokens(s) \cup IndexTokens(s) \cup QuotedTokens(s)

\* a token with the "." that may precede it
DottedTokensAt(s) ==
  TokensAt(s) \cup
    (IF s # <<>> /\ s[1] = "."
     THEN {GrammarToken(t.len + 1, t.contents) : t \in TokensAt(Tail(s))}
     ELSE {})

RECURSIVE Tokenisations(_)
\* the ways to read s as a chain of grammar tokens: each is the sequence of the
\* tokens' contents, left to right (none if s is no chain)
Tokenisations(s) ==
  IF s = <<>> THEN {<<>>}
  ELSE UNION {{<<t.contents>> \o rest :
                 rest \in Tokenisations(SubSeq(s, t.len + 1, Len(s)))} :
              t \in DottedTokensAt(s)}

ParseReturned == call = "parsePath" /\ Returned /\ pathString.isString

----------------------------------------------------------------------------
\* the position of key in the enumeration order of container c
EnumIndex(c, key) == CHOOSE i \in 1..Len(Entries(c)) : Entries(c)[i].key = key

\* entries i and j of the result are matches at two fields of one container
Siblings(i, j) ==
  /\ i # j
  /\ LocationOf(foundRoutes[i])[1] = LocationOf(foundRoutes[j])[1]

\* C14 as stated: two matching fields of one container appear in the sequence
\* deepFindByValue returns in the reverse of the container's enumeration order.
C14_SiblingsReversed ==
  (ValueSearch /\ Returned) =>
     \A i, j \in 1..Len(result) :
        (Siblings(i, j) /\ i < j) =>
           EnumIndex(LocationOf(foundRoutes[i])[1], LocationOf(foundRoutes[i])[2])
             > EnumIndex(LocationOf(foundRoutes[j])[1], LocationOf(foundRoutes[j])[2])

\* C14, amended: two matching fields of one container appear in the returned
\* sequence in the container's enumeration order; each entry of the result is
\* the path string emitted for the route of the same position.
C14_SiblingsInEnumerationOrder ==
  (ValueSearch /\ Returned) =>
     /\ Len(result) = Len(foundRoutes)
     /\ \A i, j \in 1..Len(result) :
           (Siblings(i, j) /\ i < j) =>
              EnumIndex(LocationOf(foundRoutes[i])[1], LocationOf(foundRoutes[i])[2])
                < EnumIndex(LocationOf(foundRoutes[j])[1], LocationOf(foundRoutes[j])[2])

\* two matching fields of a container below the root, with different paths
C14_Witness ==
  /\ ValueSearch /\ Returned
  /\ \E i, j \in 1..Len(result) :
        /\ Siblings(i, j) /\ i < j
        /\ Len(foundRoutes[i]) >= 2
        /\ result[i] # result[j]

----------------------------------------------------------------------------
LocatorCall == call \in {"deepFindByKey", "deepFindByValue"}

\* the containers expanded so far: key-checked by deepFindByKey, enumerated by
\* deepFindByValue
Expanded == {expansions[i] : i \in 1..Len(expansions)}

\* the fields that hold container c
EdgesTo(c) == {l \in Locations : GetProperty(l[1], l[2]) = Ref(c)}

\* C15: in both locators the visited set starts empty, holds exactly the
\* containers expanded so far, all reachable from the root; the container whose
\* fields are being inspected is already in it; and no container is expanded
\* twice, however many routes or cycles lead to it.
C15_VisitedDiscipline ==
  LocatorCall =>
     /\ pc = "start" => visited = {}
     /\ visited = Expanded
     /\ visited \subseteq Reachable
     /\ pc \in {"check", "fields"} => (IsSearchable(current) /\ current.v \in visited)
     /\ \A i, j \in 1..Len(expansions) : expansions[i] = expansions[j] => i = j

\* a call that ended on a graph with a cycle in which two fields hold the same
\* container, every reachable container visited
C15_Witness ==
  /\ LocatorCall /\ Returned /\ HasCycle
  /\ visited = Reachable
  /\ \E c \in visited : Cardinality(EdgesTo(c)) >= 2

----------------------------------------------------------------------------
\* C16: parsePath ends on every input, well-formed or not, returning a token
\* sequence and never raising; the scan position grows at every iteration of
\* the tokenizer loop, so the loop runs at most once per character of the input.
C16_ParseTerminates ==
  /\ <>(pc = "done")
  /\ [](raised = "none" /\ iterations <= Len(pathString.chars))
  /\ [][(pc = "matched" /\ pc' = "scan") => lastIndex' > lastIndex]_vars

\* a malformed expression, scanned in several iterations that skipped characters
C16_Witness ==
  /\ ParseReturned
  /\ Tokenisations(pathString.chars) = {}
  /\ iterations >= 2
  /\ Len(result) = iterations
  /\ \E i \in 1..Len(pathString.chars) : pathString.chars[i] = "'"

----------------------------------------------------------------------------
\* compareFn(obj, targetValue) would return true for the root itself
RootMatches == CompareFn(compareFn, obj, targetValue) = "true"

\* the root is no candidate: every reported path belongs to a route of at least
\* one key, compareFn has been called once per field of the reachable
\* containers when the call returns, and a root that alone satisfies compareFn
\* gives the empty result
RootIsNoCandidate ==
  /\ Len(foundPaths) = Len(foundRoutes)
  /\ \A i \in 1..Len(foundRoutes) : Len(foundRoutes[i]) >= 1
  /\ (ValueSearch /\ Returned) => comparisons = Cardinality(Locations)
  /\ (ValueSearch /\ Returned /\ RootMatches /\ MatchingLocations = {}) => result = <<>>

\* C17 as stated: the root is no candidate, so no reported path is the empty
\* path.
C17_NoEmptyPath ==
  call = "deepFindByValue" =>
     /\ RootIsNoCandidate
     /\ \A i \in 1..Len(foundPaths) : foundPaths[i] # <<>>

\* C17, amended: the root is no candidate; a reported path is the empty path
\* only for a match reached through keys that are all the empty string.
C17_EmptyPathOnlyForEmptyKeys ==
  call = "deepFindByValue" =>
     /\ RootIsNoCandidate
     /\ \A i \in 1..Len(foundPaths) :
           foundPaths[i] = <<>> =>
              \A k \in 1..Len(foundRoutes[i]) : foundRoutes[i][k].key = <<>>

\* the root itself was searched for in a graph of several containers none of
\* whose fields holds it: nothing is reported
C17_Witness ==
  /\ ValueSearch /\ Returned
  /\ targetValue = obj /\ RootMatches
  /\ MatchingLocations = {}
  /\ Cardinality(Reachable) >= 2
  /\ comparisons >= 2
  /\ result = <<>>

=============================================================================
